---- MODULE Spec2Model ----
(***************************************************************************)
(* The reactive engine of chapter 4: bucket / track / trigger, the effect  *)
(* wrapper with its effectStack, cleanup, the scheduler option, computed   *)
(* and the jobQueue / flushJob batching, as one small-step machine.        *)
(* JavaScript runs one call at a time, so the machine carries the call     *)
(* stack (ctl) and every action is one step of the function on top of it.  *)
(* A JavaScript Set iterates in insertion order; it is a sequence without  *)
(* repetitions here.                                                       *)
(***************************************************************************)
EXTENDS Integers, Sequences, FiniteSets, TLC

\* ------------------------------------------------------------------ bounds
\* top-level statements the application executes
MaxOps == 5
\* call depth at which the host raises RangeError (stack overflow)
MaxDepth == 12

\* ------------------------------------------------------------------ helpers
Undefined == 0

Range(s) == {s[i] : i \in DOMAIN s}

\* faulty variant: a slot that keeps the last effect only
SetOnly(s, x) == <<x>>

\* Set.prototype.add on an insertion-ordered set
SetAdd(s, x) == IF x \in Range(s) THEN s ELSE Append(s, x)

\* Set.prototype.delete
SetDelete(s, x) == SelectSeq(s, LAMBDA y : y # x)

Top(s) == s[Len(s)]

Pop(s) == SubSeq(s, 1, Len(s) - 1)

\* ------------------------------------------------------------------ inputs
\* const data = { foo: 1, bar: 2 } (and ok: true of the branch example)
Fields == {"foo", "bar", "ok"}

data0 == [foo |-> 1, bar |-> 2, ok |-> 1]

\* values the application assigns
WriteVals == {0, 1}

I(op, a, b) == [op |-> op, a |-> a, b |-> b]

\* The functions handed to effect() and computed(), as instruction lists over
\* one accumulator:
\*   read a      acc = obj[a]
\*   add a       acc = acc + obj[a]
\*   cond a b    acc = acc ? obj[a] : obj[b]
\*   inc a       obj[a] = acc + 1
\*   effect a    effect(a, options of a)
\*   value a     acc = a.value        (a computed)
\*   throwif0    if (!acc) throw
\*   log         console.log(acc)
\* () => { document.body.innerText = obj.ok ? obj.foo : obj.bar }
\* (the example of 4.4 with a field read in both branches)
Branch == <<I("read", "ok", ""), I("cond", "foo", "bar"), I("log", "", "")>>

\* () => { obj.foo++ }
Incr == <<I("read", "foo", ""), I("inc", "foo", "")>>

\* function effectFn1 () { effect(function effectFn2 () {...}); temp1 = obj.foo }
EffectFn1 == <<I("effect", "effectFn2", ""), I("read", "foo", "")>>

\* function effectFn2 () { temp2 = obj.bar }
EffectFn2 == <<I("read", "bar", "")>>

\* () => obj.foo + obj.bar
SumGetter == <<I("read", "foo", ""), I("add", "bar", "")>>

\* a computed over a computed: () => sumRes.value + obj.ok
TwiceGetter == <<I("value", "sumRes", ""), I("add", "ok", "")>>

\* function abc () { console.log(sumRes.value) }
Abc == <<I("value", "sumRes", ""), I("log", "", "")>>

\* the same over the second computed: () => { console.log(twice.value) }
Def == <<I("value", "twice", ""), I("log", "", "")>>

\* () => { console.log(obj.foo) }
LogFoo == <<I("read", "foo", ""), I("log", "", "")>>

\* a job that writes what another job reads: () => { obj.foo = obj.bar + 1 }
CopyBar == <<I("read", "bar", ""), I("inc", "foo", "")>>

\* an effect over a field and a computed of it:
\* () => { obj.foo; console.log(sumRes.value) }
Mix == <<I("read", "foo", ""), I("value", "sumRes", ""), I("log", "", "")>>

\* an effect that reads one field twice: () => { console.log(obj.foo + obj.foo) }
Double == <<I("read", "foo", ""), I("add", "foo", ""), I("log", "", "")>>

\* an effect whose body can fail: () => { if (!obj.ok) throw new Error() }
Guard == <<I("read", "ok", ""), I("throwif0", "", "")>>

Body(fn) ==
    CASE fn = "branch"      -> Branch
      [] fn = "incr"        -> Incr
      [] fn = "effectFn1"   -> EffectFn1
      [] fn = "effectFn2"   -> EffectFn2
      [] fn = "sumGetter"   -> SumGetter
      [] fn = "twiceGetter" -> TwiceGetter
      [] fn = "abc"         -> Abc
      [] fn = "def"         -> Def
      [] fn = "logJob"      -> LogFoo
      [] fn = "logTimer"    -> LogFoo
      [] fn = "guard"       -> Guard
      [] fn = "guardJob"    -> Guard
      [] fn = "copyJob"     -> CopyBar
      [] fn = "mix"         -> Mix
      [] fn = "sumLazy"     -> SumGetter
      [] fn = "double"      -> Double

\* the options record each function is registered with
Options(fn) ==
    CASE fn \in {"sumGetter", "twiceGetter"} -> [lazy |-> TRUE, scheduler |-> "computed"]
      [] fn \in {"logJob", "guardJob", "copyJob"} -> [lazy |-> FALSE, scheduler |-> "jobQueue"]
      [] fn = "sumLazy"                      -> [lazy |-> TRUE, scheduler |-> "none"]
      [] fn = "logTimer"                     -> [lazy |-> FALSE, scheduler |-> "setTimeout"]
      [] OTHER                               -> [lazy |-> FALSE, scheduler |-> "none"]

Computeds == {"sumRes", "twice"}

Getter(c) == IF c = "sumRes" THEN "sumGetter" ELSE "twiceGetter"

\* The application programs that drive the engine: which functions the
\* script registers (and how often), which computeds it creates, which
\* fields it assigns and reads at top level.
App(regs, comps, fields, reads) ==
    [regs |-> regs, comps |-> comps, fields |-> fields, reads |-> reads]

Apps ==
    { App(<<"branch">>, {}, {"ok", "foo", "bar"}, {"foo", "bar"}),
      App(<<"incr", "incr">>, {}, {"foo"}, {"foo"}),
      App(<<"effectFn1">>, {}, {"foo", "bar"}, {"foo"}),
      App(<<"abc", "def">>, {"sumRes", "twice"}, {"foo", "bar", "ok"}, {"foo"}),
      App(<<"logJob", "guardJob">>, {}, {"foo", "ok"}, {"foo"}),
      App(<<"logTimer", "logJob">>, {}, {"foo"}, {"foo"}),
      App(<<"logJob", "copyJob">>, {}, {"bar"}, {"foo"}),
      App(<<"sumLazy">>, {}, {"foo", "bar"}, {"foo"}),
      App(<<"mix">>, {"sumRes"}, {"foo", "bar"}, {"foo"}),
      App(<<"double">>, {}, {"foo"}, {"foo"}),
      App(<<"guard">>, {}, {"ok"}, {"foo", "ok"}) }

\* ------------------------------------------------------------------ state
VARIABLES
    app,          \* the application program being run
    data,         \* the raw data object behind the proxy
    bucket,       \* WeakMap target -> Map key -> Set of effects
    effects,      \* the effectFn objects: fn, options, deps
    activeEffect, \* let activeEffect
    effectStack,  \* const effectStack = []
    comp,         \* per computed: value, dirty, effectFn
    jobQueue,     \* const jobQueue = new Set()
    isFlushing,   \* let isFlushing
    microtasks,   \* the host's microtask queue
    timers,       \* the host's timer queue (setTimeout callbacks)
    ctl,          \* the call stack
    turn,         \* "sync": a task is running; "micro": microtask checkpoint
    ops,          \* top-level statements executed so far
    err,          \* the last task ended by an uncaught exception
    ret,          \* value the last top-level read returned
    logged,       \* console: per effect the last value it logged
    runs,         \* history: per effect, invocations of fn
    calls,        \* history: per effect, invocations of its scheduler
    stmt,         \* history: the statement or task being executed
    pre,          \* history: the state when that statement or task began
    mark          \* history: calls when the last flush began

vars == <<app, data, bucket, effects, activeEffect, effectStack, comp, jobQueue,
          isFlushing, microtasks, timers, ctl, turn, ops, err, ret, logged, runs, calls,
          stmt, pre, mark>>

hist == <<stmt, pre, mark>>

At(s, i) == IF i \in DOMAIN s THEN s[i] ELSE 0

Snapshot(asked) ==
    [data |-> data, runs |-> runs, comp |-> comp, effectStack |-> effectStack,
     activeEffect |-> activeEffect, jobQueue |-> jobQueue, asked |-> asked,
     bucket |-> bucket, calls |-> calls, timers |-> timers]

Stmt(op, a, v) == [op |-> op, a |-> a, v |-> v]

engine == <<bucket, effects, activeEffect, effectStack>>

hostQ == <<jobQueue, isFlushing, microtasks, timers>>

Frame(op, e, c, pc, acc, run) ==
    [op |-> op, e |-> e, c |-> c, pc |-> pc, acc |-> acc, run |-> run]

EffectFrame(e) == Frame("effectFn", e, "", 0, 0, <<>>)

Init ==
    /\ app \in Apps
    /\ data = data0
    /\ bucket = <<>>
    /\ effects = <<>>
    /\ activeEffect = Undefined
    /\ effectStack = <<>>
    /\ comp = <<>>
    /\ jobQueue = <<>>
    /\ isFlushing = FALSE
    /\ microtasks = <<>>
    /\ timers = <<>>
    /\ ctl = <<>>
    /\ turn = "sync"
    /\ ops = 0
    /\ err = FALSE
    /\ ret = 0
    /\ logged = <<>>
    /\ runs = <<>>
    /\ calls = <<>>
    /\ stmt = Stmt("none", "", 0)
    /\ pre = Snapshot(<<>>)
    /\ mark = <<>>

\* ------------------------------------------------------------------ engine
\* faulty variant: track that subscribes only when it creates the set
TrackOnce(target, key) ==
    IF activeEffect = Undefined \/ (target \in DOMAIN bucket /\ key \in DOMAIN bucket[target])
    THEN UNCHANGED <<bucket, effects>>
    ELSE LET depsMap == IF target \in DOMAIN bucket THEN bucket[target] ELSE <<>>
         IN  /\ bucket' = (target :> ((key :> <<activeEffect>>) @@ depsMap)) @@ bucket
             /\ effects' = [effects EXCEPT ![activeEffect].deps = Append(@, <<target, key>>)]

\* faulty variant: track of 4.3, which does not push the set onto effectFn.deps
TrackOneWay(target, key) ==
    IF activeEffect = Undefined
    THEN UNCHANGED <<bucket, effects>>
    ELSE LET depsMap == IF target \in DOMAIN bucket THEN bucket[target] ELSE <<>>
             deps    == IF key \in DOMAIN depsMap THEN depsMap[key] ELSE <<>>
         IN  /\ bucket' = (target :> ((key :> SetAdd(deps, activeEffect)) @@ depsMap)) @@ bucket
             /\ effects' = effects

\* track(target, key)
Track(target, key) ==
    IF activeEffect = Undefined
    THEN UNCHANGED <<bucket, effects>>
    ELSE LET depsMap == IF target \in DOMAIN bucket THEN bucket[target] ELSE <<>>
             deps    == IF key \in DOMAIN depsMap THEN depsMap[key] ELSE <<>>
         IN  /\ bucket' = (target :> ((key :> SetAdd(deps, activeEffect)) @@ depsMap)) @@ bucket
             /\ effects' = [effects EXCEPT ![activeEffect].deps = Append(@, <<target, key>>)]

\* faulty variant: the wrapper of 4.3, which never leaves a dependency set
CleanupNone(e) == bucket

\* cleanup(effectFn): the bucket after effectFn left every set of its deps
Cleanup(e) ==
    [t \in DOMAIN bucket |->
        [k \in DOMAIN bucket[t] |->
            IF <<t, k>> \in Range(effects[e].deps)
            THEN SetDelete(bucket[t][k], e)
            ELSE bucket[t][k]]]

\* faulty variant: new Set(effects), without the effectFn !== activeEffect test
EffectsToRunAll(target, key) ==
    IF target \notin DOMAIN bucket THEN <<>>
    ELSE IF key \notin DOMAIN bucket[target] THEN <<>>
    ELSE bucket[target][key]

\* faulty variant: a key without an entry falls back to another key's set
EffectsToRunAnyKey(target, key) ==
    IF target \notin DOMAIN bucket THEN <<>>
    ELSE LET k == IF key \in DOMAIN bucket[target] THEN key
                  ELSE CHOOSE x \in DOMAIN bucket[target] : TRUE
         IN  SelectSeq(bucket[target][k], LAMBDA e : e # activeEffect)

\* trigger(target, key), first half: the effectsToRun snapshot
EffectsToRun(target, key) ==
    IF target \notin DOMAIN bucket THEN <<>>
    ELSE IF key \notin DOMAIN bucket[target] THEN <<>>
    ELSE SelectSeq(bucket[target][key], LAMBDA e : e # activeEffect)

\* the call stack after trigger(target, key) was called on top of stack
PushTrigger(stack, target, key) ==
    LET run == EffectsToRun(target, key)
    IN  IF run = <<>> THEN stack
        ELSE Append(stack, Frame("trigger", 0, target, 0, 0, run))

\* faulty variant: activeEffect is cleared, not restored to the outer effect
RestoreNone(stack) == Undefined

\* faulty variant: activeEffect keeps the effect that just finished
RestoreStale(stack) == activeEffect

\* activeEffect = effectStack[effectStack.length - 1]
Restore(stack) == IF stack = <<>> THEN Undefined ELSE Top(stack)

\* const effectFn = () => {...}; effectFn.options = options; effectFn.deps = []
NewEffect(fn) == [fn |-> fn, options |-> Options(fn), deps |-> <<>>]

\* the call stack after the top frame returned v to its caller
Return(v) ==
    LET from == Top(ctl).op
        rest == Pop(ctl)
    IN  IF rest = <<>> THEN rest
        ELSE LET B == Top(rest)
             IN  IF \/ from = "getter" /\ B.op = "effectFn"
                    \/ from = "effectFn" /\ B.op = "getter"
                 THEN Append(Pop(rest), [B EXCEPT !.acc = v])
                 ELSE rest

\* an exception: nothing in the engine catches, so the call stack unwinds to
\* the task; inside the flush microtask the promise is rejected and its
\* .finally callback is queued
Throw ==
    /\ ctl' = <<>>
    /\ err' = TRUE
    /\ microtasks' = IF ctl[1].op = "flush" THEN Append(microtasks, "finally") ELSE microtasks

Count(fn, s) == Cardinality({i \in DOMAIN s : s[i] = fn})

Needs(fn) == {Body(fn)[i].a : i \in {j \in DOMAIN Body(fn) : Body(fn)[j].op = "value"}}

AtTop == ctl = <<>> /\ turn = "sync" /\ ops < MaxOps

\* a statement of the script begins
Begin(op, a, v) ==
    /\ ops' = ops + 1
    /\ err' = FALSE
    /\ stmt' = Stmt(op, a, v)
    /\ pre' = Snapshot(<<>>)
    /\ mark' = mark

Running == ctl # <<>> /\ Len(ctl) < MaxDepth

Advance(F) == Append(Pop(ctl), [F EXCEPT !.pc = @ + 1])

Instr(F) == Body(effects[F.e].fn)[F.pc]

InBody(F) == F.op = "effectFn" /\ F.pc \in DOMAIN Body(effects[F.e].fn)

\* ------------------------------------------------------------------ top level
\* faulty variant: effect() before the lazy option, which always calls effectFn
EagerAlways(fn) == TRUE

\* if (!options.lazy)
Eager(fn) == ~Options(fn).lazy

\* effect(fn, options) as a statement of the script
Register(fn) ==
    /\ AtTop
    /\ Count(fn, [i \in DOMAIN effects |-> effects[i].fn]) < Count(fn, app.regs)
    /\ Needs(fn) \subseteq DOMAIN comp
    /\ effects' = Append(effects, NewEffect(fn))
    /\ runs' = Append(runs, 0)
    /\ calls' = Append(calls, 0)
    /\ logged' = Append(logged, -1)
    /\ ctl' = IF Eager(fn) THEN <<EffectFrame(Len(effects) + 1)>> ELSE <<>>
    /\ Begin("effect", fn, 0)
    /\ UNCHANGED <<app, data, bucket, activeEffect, effectStack, comp, hostQ, turn, ret>>

\* computed(getter)
Computed(c) ==
    /\ AtTop
    /\ c \in app.comps
    /\ c \notin DOMAIN comp
    /\ Needs(Getter(c)) \subseteq DOMAIN comp
    /\ effects' = Append(effects, NewEffect(Getter(c)))
    /\ runs' = Append(runs, 0)
    /\ calls' = Append(calls, 0)
    /\ logged' = Append(logged, -1)
    /\ comp' = (c :> [value |-> Undefined, dirty |-> TRUE, effectFn |-> Len(effects) + 1]) @@ comp
    /\ Begin("computed", c, 0)
    /\ UNCHANGED <<app, data, bucket, activeEffect, effectStack, hostQ, ctl, turn, ret>>

\* faulty variant: a set handler that calls trigger and has not stored yet
StoreLate(f, v) == data

\* target[key] = newVal
Store(f, v) == [data EXCEPT ![f] = v]

\* obj[f] = v : the proxy's set handler
Write(f, v) ==
    /\ AtTop
    /\ f \in app.fields
    /\ data' = Store(f, v)
    /\ ctl' = PushTrigger(<<>>, "data", f)
    /\ Begin("write", f, v)
    /\ UNCHANGED <<app, engine, comp, hostQ, turn, ret, logged, runs, calls>>

\* obj[f] : the proxy's get handler
Read(f) ==
    /\ AtTop
    /\ f \in app.reads
    /\ Track("data", f)
    /\ ret' = data[f]
    /\ Begin("read", f, 0)
    /\ UNCHANGED <<app, data, activeEffect, effectStack, comp, hostQ, ctl, turn, logged, runs, calls>>

\* effectFn() : the script calls the handle that a lazy effect() returned
Invoke(e) ==
    /\ AtTop
    /\ e \in DOMAIN effects
    /\ effects[e].options.lazy
    /\ effects[e].options.scheduler = "none"
    /\ ctl' = <<EffectFrame(e)>>
    /\ Begin("invoke", "", e)
    /\ UNCHANGED <<app, data, engine, comp, hostQ, turn, ret, logged, runs, calls>>

\* c.value read by the script
ReadValue(c) ==
    /\ AtTop
    /\ c \in DOMAIN comp
    /\ ctl' = <<Frame("getter", 0, c, 0, 0, <<>>)>>
    /\ Begin("value", c, 0)
    /\ UNCHANGED <<app, data, engine, comp, hostQ, turn, ret, logged, runs, calls>>

\* ------------------------------------------------------------------ effectFn
\* effectFn(): cleanup(effectFn); activeEffect = effectFn; effectStack.push(effectFn)
EffectEnter ==
    /\ Running
    /\ LET F == Top(ctl) IN
        /\ F.op = "effectFn"
        /\ F.pc = 0
        /\ bucket' = Cleanup(F.e)
        /\ effects' = [effects EXCEPT ![F.e].deps = <<>>]
        /\ activeEffect' = F.e
        /\ effectStack' = Append(effectStack, F.e)
        /\ runs' = [runs EXCEPT ![F.e] = @ + 1]
        /\ ctl' = Advance(F)
    /\ UNCHANGED <<app, hist, data, comp, hostQ, turn, ops, err, ret, logged, calls>>

\* fn reads a field of the proxy: get handler, track, return target[key]
BodyRead ==
    /\ Running
    /\ LET F == Top(ctl) IN
        /\ InBody(F)
        /\ Instr(F).op \in {"read", "add", "cond"}
        /\ LET i == Instr(F)
               key == IF i.op = "cond" /\ F.acc = 0 THEN i.b ELSE i.a
               acc == IF i.op = "add" THEN F.acc + data[key] ELSE data[key]
           IN  /\ Track("data", key)
               /\ ctl' = Append(Pop(ctl), [F EXCEPT !.pc = @ + 1, !.acc = acc])
    /\ UNCHANGED <<app, hist, data, activeEffect, effectStack, comp, hostQ, turn, ops, err, ret,
                   logged, runs, calls>>

\* fn assigns a field of the proxy: set handler, target[key] = newVal, trigger
BodyInc ==
    /\ Running
    /\ LET F == Top(ctl) IN
        /\ InBody(F)
        /\ Instr(F).op = "inc"
        /\ data' = Store(Instr(F).a, F.acc + 1)
        /\ ctl' = PushTrigger(Advance(F), "data", Instr(F).a)
    /\ UNCHANGED <<app, hist, engine, comp, hostQ, turn, ops, err, ret, logged, runs, calls>>

\* fn calls effect(inner, options)
BodyEffect ==
    /\ Running
    /\ LET F == Top(ctl) IN
        /\ InBody(F)
        /\ Instr(F).op = "effect"
        /\ effects' = Append(effects, NewEffect(Instr(F).a))
        /\ runs' = Append(runs, 0)
        /\ calls' = Append(calls, 0)
        /\ logged' = Append(logged, -1)
        /\ ctl' = IF Eager(Instr(F).a)
                  THEN Append(Advance(F), EffectFrame(Len(effects) + 1))
                  ELSE Advance(F)
    /\ UNCHANGED <<app, hist, data, bucket, activeEffect, effectStack, comp, hostQ, turn, ops, err, ret>>

\* fn reads c.value
BodyValue ==
    /\ Running
    /\ LET F == Top(ctl) IN
        /\ InBody(F)
        /\ Instr(F).op = "value"
        /\ ctl' = Append(Advance(F), Frame("getter", 0, Instr(F).a, 0, 0, <<>>))
    /\ UNCHANGED <<app, hist, data, engine, comp, hostQ, turn, ops, err, ret, logged, runs, calls>>

\* console.log(acc)
BodyLog ==
    /\ Running
    /\ LET F == Top(ctl) IN
        /\ InBody(F)
        /\ Instr(F).op = "log"
        /\ logged' = [logged EXCEPT ![F.e] = F.acc]
        /\ ctl' = Advance(F)
    /\ UNCHANGED <<app, hist, data, engine, comp, hostQ, turn, ops, err, ret, runs, calls>>

\* if (!acc) throw ...
BodyThrow ==
    /\ Running
    /\ LET F == Top(ctl) IN
        /\ InBody(F)
        /\ Instr(F).op = "throwif0"
        /\ IF F.acc = 0 THEN Throw
           ELSE ctl' = Advance(F) /\ UNCHANGED <<err, microtasks>>
    /\ UNCHANGED <<app, hist, data, engine, comp, jobQueue, isFlushing, timers, turn, ops, ret,
                   logged, runs, calls>>

\* fn returned: effectStack.pop(); activeEffect = effectStack[length - 1]; return res
EffectExit ==
    /\ Running
    /\ LET F == Top(ctl) IN
        /\ F.op = "effectFn"
        /\ F.pc > Len(Body(effects[F.e].fn))
        /\ effectStack' = Pop(effectStack)
        /\ activeEffect' = Restore(Pop(effectStack))
        /\ ctl' = Return(F.acc)
        /\ ret' = IF Len(ctl) = 1 /\ stmt.op = "invoke" THEN F.acc ELSE ret
    /\ UNCHANGED <<app, hist, data, bucket, effects, comp, hostQ, turn, ops, err, logged,
                   runs, calls>>

\* the host's RangeError once the call stack is MaxDepth deep
StackOverflow ==
    /\ Len(ctl) >= MaxDepth
    /\ Throw
    /\ UNCHANGED <<app, hist, data, engine, comp, jobQueue, isFlushing, timers, turn, ops, ret,
                   logged, runs, calls>>

\* ------------------------------------------------------------------ trigger
\* faulty variant: trigger before the scheduler option existed, effectFn() for all
HasSchedulerNever(e) == FALSE

\* if (effectFn?.options?.scheduler)
HasScheduler(e) == effects[e].options.scheduler # "none"

\* faulty variant: forEach over the live set, which meets the effect again
\* after it left the set and re-entered it at the end
RestLive(F) == Append(Pop(ctl), [F EXCEPT !.run = Append(Tail(@), Head(@))])

\* the call stack once the head of effectsToRun has been taken
Rest(F) ==
    IF Tail(F.run) = <<>> THEN Pop(ctl)
    ELSE Append(Pop(ctl), [F EXCEPT !.run = Tail(@)])

\* effectsToRun.forEach: else effectFn()
TriggerRun ==
    /\ Running
    /\ LET F == Top(ctl) IN
        /\ F.op = "trigger"
        /\ ~HasScheduler(Head(F.run))
        /\ ctl' = Append(Rest(F), EffectFrame(Head(F.run)))
    /\ UNCHANGED <<app, hist, data, engine, comp, hostQ, turn, ops, err, ret, logged, runs, calls>>

\* faulty variant: flushJob without the isFlushing test
flushJobAlways ==
    /\ isFlushing' = TRUE
    /\ microtasks' = Append(microtasks, "flush")

\* flushJob()
flushJob ==
    IF isFlushing
    THEN UNCHANGED <<isFlushing, microtasks>>
    ELSE /\ isFlushing' = TRUE
         /\ microtasks' = Append(microtasks, "flush")

\* scheduler (fn) { jobQueue.add(fn); flushJob() }
SchedulerJobQueue ==
    /\ Running
    /\ LET F == Top(ctl) IN
        /\ F.op = "trigger"
        /\ HasScheduler(Head(F.run))
        /\ effects[Head(F.run)].options.scheduler = "jobQueue"
        /\ jobQueue' = SetAdd(jobQueue, Head(F.run))
        /\ flushJob
        /\ calls' = [calls EXCEPT ![Head(F.run)] = @ + 1]
        /\ ctl' = Rest(F)
    /\ UNCHANGED <<app, hist, data, engine, comp, timers, turn, ops, err, ret, logged, runs>>

\* scheduler (fn) { setTimeout(fn) }
SchedulerTimeout ==
    /\ Running
    /\ LET F == Top(ctl) IN
        /\ F.op = "trigger"
        /\ HasScheduler(Head(F.run))
        /\ effects[Head(F.run)].options.scheduler = "setTimeout"
        /\ timers' = Append(timers, Head(F.run))
        /\ calls' = [calls EXCEPT ![Head(F.run)] = @ + 1]
        /\ ctl' = Rest(F)
    /\ UNCHANGED <<app, hist, data, engine, comp, jobQueue, isFlushing, microtasks, turn, ops, err,
                   ret, logged, runs>>

\* faulty variant: the scheduler marks the computed dirty and notifies nobody
NotifyNone(stack, c) == stack

\* trigger(obj, 'value') in the computed's scheduler
Notify(stack, c) == PushTrigger(stack, c, "value")

\* the computed whose closure holds effect e
ComputedOf(e) == CHOOSE c \in DOMAIN comp : comp[c].effectFn = e

\* faulty variant: a scheduler that notifies on every call
CleanAlways(c) == TRUE

\* if (!dirty), the test of the computed's scheduler
Clean(c) == ~comp[c].dirty

\* scheduler () { if (!dirty) { dirty = true; trigger(obj, 'value') } }
SchedulerComputed ==
    /\ Running
    /\ LET F == Top(ctl) IN
        /\ F.op = "trigger"
        /\ HasScheduler(Head(F.run))
        /\ effects[Head(F.run)].options.scheduler = "computed"
        /\ calls' = [calls EXCEPT ![Head(F.run)] = @ + 1]
        /\ LET c == ComputedOf(Head(F.run)) IN
            IF ~Clean(c)
            THEN /\ ctl' = Rest(F)
                 /\ UNCHANGED comp
            ELSE /\ comp' = [comp EXCEPT ![c].dirty = TRUE]
                 /\ ctl' = Notify(Rest(F), c)
    /\ UNCHANGED <<app, hist, data, engine, hostQ, turn, ops, err, ret, logged, runs>>

\* ------------------------------------------------------------------ computed
\* faulty variant: the getter of the lazy-only computed, which evaluates on every read
DirtyAlways(c) == TRUE

\* if (dirty)
Dirty(c) == comp[c].dirty

\* get value (): if (dirty) { value = effectFn() ...
GetterEval ==
    /\ Running
    /\ LET F == Top(ctl) IN
        /\ F.op = "getter"
        /\ F.pc = 0
        /\ Dirty(F.c)
        /\ ctl' = Append(Advance(F), EffectFrame(comp[F.c].effectFn))
    /\ UNCHANGED <<app, hist, data, engine, comp, hostQ, turn, ops, err, ret, logged, runs, calls>>

\* ... dirty = false }; track(obj, 'value'); return value
GetterReturn ==
    /\ Running
    /\ LET F == Top(ctl) IN
        /\ F.op = "getter"
        /\ F.pc = 1 \/ ~Dirty(F.c)
        /\ comp' = IF F.pc = 1
                   THEN [comp EXCEPT ![F.c].value = F.acc, ![F.c].dirty = FALSE]
                   ELSE comp
        /\ Track(F.c, "value")
        /\ ctl' = Return(comp'[F.c].value)
        /\ ret' = IF Len(ctl) = 1 THEN comp'[F.c].value ELSE ret
    /\ UNCHANGED <<app, hist, data, activeEffect, effectStack, hostQ, turn, ops, err, logged,
                   runs, calls>>

\* ------------------------------------------------------------------ host
\* the task ended: the microtask queued by p.then(...) starts
FlushStart ==
    /\ ctl = <<>>
    /\ microtasks # <<>>
    /\ Head(microtasks) = "flush"
    /\ microtasks' = Tail(microtasks)
    /\ ctl' = <<Frame("flush", 0, "", 1, 0, <<>>)>>
    /\ turn' = "micro"
    /\ stmt' = Stmt("flush", "", 0)
    /\ pre' = Snapshot([e \in DOMAIN calls |-> calls[e] - At(mark, e)])
    /\ mark' = calls
    /\ UNCHANGED <<app, data, engine, comp, jobQueue, isFlushing, timers, ops, err, ret,
                   logged, runs, calls>>

\* jobQueue.forEach(job => job()): the next job of the live set
FlushJob ==
    /\ Running
    /\ LET F == Top(ctl) IN
        /\ F.op = "flush"
        /\ F.pc <= Len(jobQueue)
        /\ ctl' = Append(Advance(F), EffectFrame(jobQueue[F.pc]))
    /\ UNCHANGED <<app, hist, data, engine, comp, hostQ, turn, ops, err, ret, logged, runs, calls>>

\* forEach is through: the promise resolves and .finally's callback is queued
FlushDone ==
    /\ Running
    /\ LET F == Top(ctl) IN
        /\ F.op = "flush"
        /\ F.pc > Len(jobQueue)
        /\ ctl' = Pop(ctl)
        /\ microtasks' = Append(microtasks, "finally")
    /\ UNCHANGED <<app, hist, data, engine, comp, jobQueue, isFlushing, timers, turn, ops, err, ret,
                   logged, runs, calls>>

\* .finally(() => { isFlushing = false })
Finally ==
    /\ ctl = <<>>
    /\ microtasks # <<>>
    /\ Head(microtasks) = "finally"
    /\ isFlushing' = FALSE
    /\ microtasks' = Tail(microtasks)
    /\ turn' = IF Tail(microtasks) = <<>> THEN "sync" ELSE "micro"
    /\ UNCHANGED <<app, hist, data, engine, comp, jobQueue, timers, ctl, ops, err, ret, logged,
                   runs, calls>>

\* faulty variant: a host that runs timer callbacks ahead of pending microtasks
CheckpointSkipped == TRUE

\* the microtask checkpoint: macrotasks wait until the microtask queue is empty
Checkpoint == microtasks = <<>>

\* a setTimeout(fn) callback runs as a task of its own
Timer ==
    /\ ctl = <<>>
    /\ turn = "sync"
    /\ Checkpoint
    /\ timers # <<>>
    /\ ctl' = <<EffectFrame(Head(timers))>>
    /\ timers' = Tail(timers)
    /\ err' = FALSE
    /\ stmt' = Stmt("timer", "", Head(timers))
    /\ pre' = Snapshot(<<>>)
    /\ mark' = mark
    /\ UNCHANGED <<app, data, engine, comp, jobQueue, isFlushing, microtasks, turn, ops, ret,
                   logged, runs, calls>>

\* ------------------------------------------------------------------ system
Fns == {"branch", "incr", "effectFn1", "abc", "def", "logJob", "guardJob", "logTimer", "guard",
        "copyJob", "mix", "sumLazy", "double"}

Next ==
    \/ \E fn \in Fns : Register(fn)
    \/ \E c \in Computeds : Computed(c)
    \/ \E f \in Fields, v \in WriteVals : Write(f, v)
    \/ \E f \in Fields : Read(f)
    \/ \E c \in Computeds : ReadValue(c)
    \/ \E e \in 1..MaxOps : Invoke(e)
    \/ EffectEnter
    \/ BodyRead
    \/ BodyInc
    \/ BodyEffect
    \/ BodyValue
    \/ BodyLog
    \/ BodyThrow
    \/ EffectExit
    \/ StackOverflow
    \/ TriggerRun
    \/ SchedulerJobQueue
    \/ SchedulerTimeout
    \/ SchedulerComputed
    \/ GetterEval
    \/ GetterReturn
    \/ FlushStart
    \/ FlushJob
    \/ FlushDone
    \/ Finally
    \/ Timer

Spec == Init /\ [][Next]_vars

\* ------------------------------------------------------------------ claims
\* the effects in the dependency set of (target, key)
Subs(target, key) ==
    IF target \in DOMAIN bucket /\ key \in DOMAIN bucket[target]
    THEN Range(bucket[target][key])
    ELSE {}

Idle == ctl = <<>>

\* C1: an effect reading ok ? foo : bar is, whenever it is not running, in the
\* dependency set of ok and in that of the branch it took last (foo when ok is
\* true, bar when ok is false) and not in the other one; a write to foo made
\* while ok is false invokes it zero times.
C1_ReRecord ==
    \A e \in DOMAIN effects :
        effects[e].fn = "branch" =>
            /\ (Idle /\ runs[e] > 0) =>
                /\ e \in Subs("data", "ok")
                /\ data.ok # 0 => (e \in Subs("data", "foo") /\ e \notin Subs("data", "bar"))
                /\ data.ok = 0 => (e \in Subs("data", "bar") /\ e \notin Subs("data", "foo"))
            /\ (stmt.op = "write" /\ stmt.a = "foo" /\ data.ok = 0) => runs[e] = At(pre.runs, e)

\* the effect ran with ok true (foo's set exists), ok was flipped to false, it
\* re-ran, and foo has been written since
C1_Witness ==
    \E e \in DOMAIN effects :
        /\ effects[e].fn = "branch"
        /\ Idle
        /\ "data" \in DOMAIN bucket /\ "foo" \in DOMAIN bucket["data"]
        /\ data.ok = 0
        /\ runs[e] >= 2
        /\ stmt.op = "write" /\ stmt.a = "foo"

\* the effects whose body writes a field
Writers == {e \in DOMAIN effects : effects[e].fn = "incr"}

\* C2: while effect(() => obj.foo++) is registered, as the only effect that
\* writes, the body is entered once and the call stack stays below the host's
\* limit; when the registration returns the body has run exactly once, foo is
\* one more than before, no error was raised and effectStack is empty.
C2_RecursionGuard ==
    (stmt.op = "effect" /\ stmt.a = "incr" /\ Cardinality(Writers) = 1) =>
        \A e \in Writers :
            /\ runs[e] <= 1
            /\ Len(ctl) < MaxDepth
            /\ Idle =>
                /\ runs[e] = 1
                /\ data.foo = pre.data.foo + 1
                /\ ~err
                /\ effectStack = <<>>
                /\ activeEffect = Undefined

C2_Witness ==
    /\ stmt.op = "effect" /\ stmt.a = "incr"
    /\ Cardinality(Writers) = 1
    /\ Idle
    /\ data.foo = pre.data.foo + 1

\* C3: in the nested program (effectFn1 registers effectFn2, which reads bar,
\* and then reads foo), whenever nothing is running foo's dependency set
\* holds every effectFn1 that ran and no effectFn2, each effectFn2 is in bar's
\* set and in no other, and a write to foo dispatches effectFn1 only.
C3_NestedRestore ==
    /\ Idle =>
        \A e \in DOMAIN effects :
            /\ (effects[e].fn = "effectFn1" /\ runs[e] > 0) =>
                /\ e \in Subs("data", "foo")
                /\ e \notin Subs("data", "bar")
            /\ effects[e].fn = "effectFn2" =>
                /\ e \in Subs("data", "bar")
                /\ e \notin Subs("data", "foo")
                /\ Range(effects[e].deps) = {<<"data", "bar">>}
    /\ (stmt.op = "write" /\ stmt.a = "foo" /\ ctl # <<>> /\ ctl[1].op = "trigger") =>
        \A i \in DOMAIN ctl[1].run : effects[ctl[1].run[i]].fn # "effectFn2"

\* effectFn1 has been re-run by a write to foo: two inner effects exist
C3_Witness ==
    /\ Idle
    /\ stmt.op = "write" /\ stmt.a = "foo"
    /\ \E o, i \in DOMAIN effects :
        /\ effects[o].fn = "effectFn1" /\ runs[o] = 2
        /\ effects[i].fn = "effectFn2"
        /\ o \in Subs("data", "foo")
        /\ i \in Subs("data", "bar")

\* the data fields a computed's getter reads, directly or through a computed
ReadsOf(c) == IF c = "sumRes" THEN {"foo", "bar"} ELSE {"foo", "bar", "ok"}

\* what the getter of c returns on the current data
GetterResult(c) == IF c = "sumRes" THEN data.foo + data.bar ELSE data.foo + data.bar + data.ok

\* the script registered no effect that reads a computed
NoReader == \A e \in DOMAIN effects : effects[e].options.lazy

\* C4: computed(getter) does not invoke the getter; a read of .value invokes
\* it exactly once when the computed is dirty (never read, or a field its getter
\* read was written since) and zero times otherwise, returning the cached
\* value; the getter is only ever invoked from a read of .value, so writes
\* alone leave its invocation count unchanged; a write to a field the getter
\* read leaves the computed dirty for the next read (or was already followed by
\* exactly one re-evaluation by a reading effect).
C4_LazyComputed ==
    \A c \in DOMAIN comp :
        LET g == comp[c].effectFn IN
        /\ (stmt.op = "computed" /\ stmt.a = c) => (runs[g] = 0 /\ comp[c].dirty)
        /\ (stmt.op = "value" /\ stmt.a = c /\ Idle) =>
            /\ runs[g] = At(pre.runs, g) + (IF pre.comp[c].dirty THEN 1 ELSE 0)
            /\ ~comp[c].dirty
            /\ ret = comp[c].value
            /\ ~pre.comp[c].dirty => ret = pre.comp[c].value
        /\ \A i \in DOMAIN ctl :
            (ctl[i].op = "effectFn" /\ ctl[i].e = g) =>
                (i > 1 /\ ctl[i - 1].op = "getter" /\ ctl[i - 1].c = c)
        /\ (stmt.op = "write" /\ NoReader) => runs[g] = At(pre.runs, g)
        /\ (stmt.op = "write" /\ stmt.a \in ReadsOf(c) /\ Idle) =>
            (comp[c].dirty \/ runs[g] = At(pre.runs, g) + 1)

\* sumRes was read, a field was written, it was read again (second
\* evaluation) and then read once more from the cache
C4_Witness ==
    /\ "sumRes" \in DOMAIN comp
    /\ stmt.op = "value" /\ stmt.a = "sumRes"
    /\ Idle
    /\ ~pre.comp["sumRes"].dirty
    /\ runs[comp["sumRes"].effectFn] = 2
    /\ ret = data.foo + data.bar
    /\ ret # 3

\* C5: when a flush has run, every effect with the jobQueue scheduler that was
\* triggered at least once since the flush before it has run exactly once in
\* this flush.
C5_BatchCoalescing ==
    (stmt.op = "flush" /\ Idle) =>
        \A e \in DOMAIN effects :
            (effects[e].options.scheduler = "jobQueue" /\ At(pre.asked, e) >= 1) =>
                runs[e] = At(pre.runs, e) + 1

\* what the code does guarantee: no more than one run per flush, and exactly
\* one when no job of the flush threw
C5_UnlessAborted ==
    (stmt.op = "flush" /\ Idle) =>
        \A e \in DOMAIN effects :
            (effects[e].options.scheduler = "jobQueue" /\ At(pre.asked, e) >= 1) =>
                /\ runs[e] <= At(pre.runs, e) + 1
                /\ ~err => runs[e] = At(pre.runs, e) + 1

\* two writes in one turn, one run in the flush
C5_Coalesced ==
    /\ stmt.op = "flush" /\ Idle /\ ~err
    /\ \E e \in DOMAIN effects :
        /\ effects[e].fn = "logJob"
        /\ At(pre.asked, e) = 2
        /\ runs[e] = At(pre.runs, e) + 1

\* an effectFn frame that was just pushed
Entering(stack) == stack # <<>> /\ Top(stack).op = "effectFn" /\ Top(stack).pc = 0

\* C6: a step of trigger's forEach whose effect has options.scheduler calls
\* that scheduler once and invokes no effect; an effect with a scheduler is
\* only ever invoked by its registration, by the flush of the jobQueue it was
\* added to, by the timer it was handed to, or by its computed's getter.
C6_SchedulerOverride ==
    /\ [][(ctl # <<>> /\ Len(ctl) < MaxDepth /\ Top(ctl).op = "trigger"
            /\ effects[Head(Top(ctl).run)].options.scheduler # "none") =>
              /\ calls' = [calls EXCEPT ![Head(Top(ctl).run)] = @ + 1]
              /\ runs' = runs
              /\ ~Entering(ctl')]_vars
    /\ [](\A i \in DOMAIN ctl :
            (ctl[i].op = "effectFn" /\ effects[ctl[i].e].options.scheduler # "none") =>
                LET e == ctl[i].e
                    by == effects[e].options.scheduler
                IN  \/ i = 1 /\ stmt.op = "effect" /\ runs[e] <= 1
                    \/ i = 1 /\ stmt.op = "timer" /\ stmt.v = e /\ by = "setTimeout"
                    \/ i > 1 /\ ctl[i - 1].op = "flush" /\ by = "jobQueue" /\ e \in Range(jobQueue)
                    \/ i > 1 /\ ctl[i - 1].op = "getter" /\ by = "computed")

\* a write has dispatched an effect to its scheduler and nothing has run it
C6_Witness ==
    \E e \in DOMAIN effects :
        /\ effects[e].options.scheduler \in {"jobQueue", "setTimeout"}
        /\ stmt.op = "write" /\ Idle
        /\ calls[e] = 2
        /\ runs[e] = 1

\* C7: a top-level read of a data field made while effectStack is empty
\* changes neither the bucket nor any effect's deps.
C7_TrackOnlyWhenActive ==
    [][(Idle /\ stmt'.op = "read" /\ ops' = ops + 1 /\ effectStack = <<>>) =>
        (bucket' = bucket /\ effects' = effects)]_vars

\* a field that has subscribers was read after registrations completed
C7_Witness ==
    /\ stmt.op = "read"
    /\ effectStack = <<>>
    /\ effects # <<>>
    /\ Subs("data", stmt.a) # {}

C9_StackRestoredOnThrow ==
    (err /\ Idle) => (effectStack = pre.effectStack /\ activeEffect = pre.activeEffect)

\* C10: when a flush ended by a job's exception, every job that was in the
\* jobQueue has been run in it.
C10_FlushIsolation ==
    (stmt.op = "flush" /\ Idle /\ err) =>
        \A j \in Range(pre.jobQueue) : runs[j] > At(pre.runs, j)

\* the dependency set of (target, key) in a bucket b, as the sequence it is
SubsIn(b, target, key) ==
    IF target \in DOMAIN b /\ key \in DOMAIN b[target] THEN b[target][key] ELSE <<>>

\* bucket b has no entry for (target, key): no effect ever read it
NoEntry(b, target, key) == target \notin DOMAIN b \/ key \notin DOMAIN b[target]

\* C11: a top-level write to a field that no effect has read is complete
\* at once: it invokes no effect and no scheduler, queues nothing, raises no
\* error and leaves the bucket as it was.
C11_MissingDependency ==
    (stmt.op = "write" /\ NoEntry(pre.bucket, "data", stmt.a)) =>
        /\ Idle
        /\ runs = pre.runs
        /\ calls = pre.calls
        /\ jobQueue = pre.jobQueue
        /\ timers = pre.timers
        /\ ~err
        /\ bucket = pre.bucket

\* an unread field was changed while effects were subscribed to other fields
C11_Witness ==
    /\ stmt.op = "write"
    /\ NoEntry(pre.bucket, "data", stmt.a)
    /\ data[stmt.a] # pre.data[stmt.a]
    /\ \E k \in Fields : SubsIn(pre.bucket, "data", k) # <<>>

\* s is what is left of t after some of its first elements were taken
IsSuffix(s, t) == \E k \in 0..Len(t) : s = SubSeq(t, k + 1, Len(t))

\* the current statement has invoked e, or e's scheduler
Dispatched(e) ==
    IF effects[e].options.scheduler = "none"
    THEN runs[e] > At(pre.runs, e)
    ELSE calls[e] > At(pre.calls, e)

\* what a top-level write does with the set its key had when it was issued
SnapshotDispatched ==
    LET snap == SubsIn(pre.bucket, "data", stmt.a) IN
    /\ (ctl # <<>> /\ ctl[1].op = "trigger" /\ ctl[1].c = "data") =>
        (ctl[1].run # <<>> /\ IsSuffix(ctl[1].run, snap))
    /\ Len(ctl) < MaxDepth
    /\ Idle => \A e \in Range(snap) : Dispatched(e)

\* C12: a top-level write made while no effect is active walks the set its
\* key had at that moment: what the trigger still has to dispatch is always a
\* rest of that set, whatever the dispatched effects did to the live set; the
\* call stack stays below the host's limit, and when the write returns every
\* effect of that set has been dispatched.
C12_SnapshotDispatch ==
    (stmt.op = "write" /\ pre.activeEffect = Undefined) => SnapshotDispatched

\* a set of two effects was dispatched in full, each having left and
\* re-entered the live set meanwhile
C12_Witness ==
    /\ stmt.op = "write" /\ pre.activeEffect = Undefined /\ Idle /\ ~err
    /\ Len(SubsIn(pre.bucket, "data", stmt.a)) = 2
    /\ \A e \in Range(SubsIn(pre.bucket, "data", stmt.a)) :
        /\ effects[e].options.scheduler = "none"
        /\ runs[e] = At(pre.runs, e) + 1
        /\ e \in Subs("data", stmt.a)

\* the job at index i of the jobQueue has been entered by the running flush
Started(i) ==
    /\ i < ctl[1].pc
    /\ ~(i = ctl[1].pc - 1 /\ Len(ctl) = 2 /\ ctl[2].pc = 0)

\* while a flush walks the jobQueue, the jobs it has entered are those
\* before its position, in the order of their first add, once each
FlushInOrder ==
    (stmt.op = "flush" /\ ctl # <<>> /\ ctl[1].op = "flush") =>
        /\ SubSeq(jobQueue, 1, Len(pre.jobQueue)) = pre.jobQueue
        /\ \A i \in DOMAIN jobQueue :
            runs[jobQueue[i]] = At(pre.runs, jobQueue[i]) + (IF Started(i) THEN 1 ELSE 0)

\* C13: a flush runs the jobs of the jobQueue in the order of their first
\* add, and when it is over every job of the queue has run exactly once in it.
C13_FlushOrder ==
    /\ FlushInOrder
    /\ (stmt.op = "flush" /\ Idle) =>
        \A j \in Range(jobQueue) : runs[j] = At(pre.runs, j) + 1

\* what the code does guarantee: the order, and exactly one run of each job
\* when no job of the flush threw
C13_UnlessAborted ==
    /\ FlushInOrder
    /\ (stmt.op = "flush" /\ Idle /\ ~err) =>
        \A j \in Range(jobQueue) : runs[j] = At(pre.runs, j) + 1

\* two jobs, the second added twice, ran in the order of their first add
C13_InOrder ==
    /\ stmt.op = "flush" /\ Idle /\ ~err
    /\ Len(pre.jobQueue) = 2
    /\ At(pre.asked, pre.jobQueue[2]) = 2
    /\ \A j \in Range(jobQueue) : runs[j] = At(pre.runs, j) + 1

Unsubscribed(e) ==
    /\ effects[e].deps = <<>>
    /\ \A t \in DOMAIN bucket : \A k \in DOMAIN bucket[t] : e \notin Range(bucket[t][k])

\* the effect that the statement effect(fn, options) created
Registered == Len(pre.runs) + 1

\* C15: when effect(fn) without lazy has returned, fn has run exactly once;
\* effect(fn, { lazy: true }) returns at once with fn not run, and as long as
\* its handle was never invoked the effect has no subscription; a call of
\* the handle runs fn once, records the fields fn read for the effect, and
\* returns fn's result.
C15_EagerLazy ==
    /\ (stmt.op = "effect" /\ ~Options(stmt.a).lazy /\ Idle /\ ~err) => runs[Registered] = 1
    /\ (stmt.op = "effect" /\ Options(stmt.a).lazy) => (Idle /\ runs[Registered] = 0)
    /\ \A e \in DOMAIN effects :
        (effects[e].options.lazy /\ runs[e] = 0) => Unsubscribed(e)
    /\ (stmt.op = "invoke" /\ Idle) =>
        /\ runs[stmt.v] = At(pre.runs, stmt.v) + 1
        /\ ret = data.foo + data.bar
        /\ {"foo", "bar"} = {k \in Fields : stmt.v \in Subs("data", k)}
        /\ Range(effects[stmt.v].deps) = {<<"data", "foo">>, <<"data", "bar">>}

\* a lazy effect was registered, stayed unsubscribed over a write, and its
\* handle then returned the sum of the values written
C15_Witness ==
    /\ stmt.op = "invoke" /\ Idle
    /\ At(pre.runs, stmt.v) = 0
    /\ pre.bucket = <<>>
    /\ pre.data # data0
    /\ ret = data.foo + data.bar

\* C16: when a flush has ended without an exception, a logJob whose
\* scheduler was called while that flush was running has been run by it after
\* the call: the value it logged last is the value foo has now.
C16_NoLostTrigger ==
    \A e \in DOMAIN effects :
        (/\ stmt.op = "flush" /\ Idle /\ ~err
         /\ effects[e].fn = "logJob"
         /\ calls[e] > At(mark, e)) =>
            logged[e] = data.foo

\* what the code does guarantee: a job triggered while the flush was pending
\* and not yet walking the queue is run by it
C16_PendingFlushRuns ==
    \A e \in DOMAIN effects :
        (/\ stmt.op = "flush" /\ Idle /\ ~err
         /\ effects[e].options.scheduler = "jobQueue"
         /\ At(pre.asked, e) >= 1) =>
            runs[e] > At(pre.runs, e)

Targets == {"data"} \cup Computeds

Keys == Fields \cup {"value"}

\* C17: in every state, an effect is in the dependency set of (target, key)
\* exactly when that set is in the effect's deps.
C17_Bidirectional ==
    \A e \in DOMAIN effects : \A t \in Targets : \A k \in Keys :
        e \in Subs(t, k) <=> <<t, k>> \in Range(effects[e].deps)

\* an effect re-ran, left a set it had been in and is in two others
C17_Witness ==
    \E e \in DOMAIN effects : \E k \in Keys :
        /\ runs[e] >= 2
        /\ Cardinality(Range(effects[e].deps)) = 2
        /\ "data" \in DOMAIN bucket /\ k \in DOMAIN bucket["data"]
        /\ e \notin Subs("data", k)
        /\ Subs("data", k) = {}

\* the effects whose wrapper has pushed and not yet popped, outermost first
Executing ==
    LET in == SelectSeq(ctl, LAMBDA F : F.op = "effectFn" /\ F.pc > 0)
    IN  [i \in DOMAIN in |-> in[i].e]

\* C18: in every state activeEffect is the top of effectStack (undefined
\* when it is empty), and effectStack holds exactly the effects that are
\* executing, so it is empty whenever none is.
C18_StackDiscipline ==
    /\ activeEffect = Restore(effectStack)
    /\ effectStack = Executing

\* what the code does guarantee: activeEffect is the top of effectStack, the
\* executing effects are the top of the stack in call order, and a normal
\* return pops the returning effect and nothing else
C18_UnlessThrown ==
    /\ [](activeEffect = Restore(effectStack))
    /\ [](IsSuffix(Executing, effectStack))
    /\ [][(/\ ctl # <<>> /\ Len(ctl) < MaxDepth /\ Top(ctl).op = "effectFn"
            /\ Top(ctl).pc > Len(Body(effects[Top(ctl).e].fn))) =>
            (Top(effectStack) = Top(ctl).e /\ effectStack' = Pop(effectStack))]_vars

\* a nested invocation returned and left the outer effect on the stack
C18_Nested ==
    /\ Len(effectStack) = 1
    /\ Executing = effectStack
    /\ \E i \in DOMAIN effects : effects[i].fn = "effectFn2" /\ runs[i] = 1
    /\ Top(ctl).op = "effectFn" /\ effects[Top(ctl).e].fn = "effectFn1"

\* a read of c.value is about to be answered
Serving(c) == ctl # <<>> /\ Top(ctl).op = "getter" /\ Top(ctl).c = c /\ Top(ctl).pc = 0

\* C19: whenever a computed is not dirty, between statements or when a
\* read of its value is answered, the cached value is the getter's result on
\* the current data; when a write to a field its getter read has returned,
\* dirty has been set (it is still set, or the getter has been evaluated since).
C19_CacheValid ==
    \A c \in DOMAIN comp :
        /\ (~comp[c].dirty /\ (Idle \/ Serving(c))) => comp[c].value = GetterResult(c)
        /\ (stmt.op = "write" /\ Idle /\ stmt.a \in ReadsOf(c) /\ ~pre.comp[c].dirty) =>
            (comp[c].dirty \/ runs[comp[c].effectFn] > At(pre.runs, comp[c].effectFn))

\* what the code does guarantee: the same between statements only
C19_ValidWhenIdle ==
    \A c \in DOMAIN comp :
        /\ (~comp[c].dirty /\ Idle) => comp[c].value = GetterResult(c)
        /\ (stmt.op = "write" /\ Idle /\ stmt.a \in ReadsOf(c) /\ ~pre.comp[c].dirty) =>
            (comp[c].dirty \/ runs[comp[c].effectFn] > At(pre.runs, comp[c].effectFn))

\* a clean computed was made dirty by a write that changed its result
C19_Invalidated ==
    /\ "sumRes" \in DOMAIN comp
    /\ stmt.op = "write" /\ Idle
    /\ ~pre.comp["sumRes"].dirty
    /\ comp["sumRes"].dirty
    /\ comp["sumRes"].value # GetterResult("sumRes")

\* trigger's forEach is at an effect that belongs to a computed
AtComputed ==
    /\ ctl # <<>> /\ Len(ctl) < MaxDepth
    /\ Top(ctl).op = "trigger"
    /\ effects[Head(Top(ctl).run)].options.scheduler = "computed"

\* C20: a call of a computed's scheduler made while dirty is true changes
\* nothing and triggers nothing; made while dirty is false it sets dirty and
\* triggers the computed's "value" key; hence a write made while a computed is
\* dirty runs and schedules none of the effects that are subscribed to that
\* computed's value only.
C20_EdgeTriggered ==
    /\ [][AtComputed =>
            LET c == ComputedOf(Head(Top(ctl).run)) IN
            IF comp[c].dirty
            THEN comp' = comp /\ ctl' = Rest(Top(ctl)) /\ runs' = runs
            ELSE /\ comp'[c].dirty
                 /\ EffectsToRun(c, "value") # <<>> =>
                        (Top(ctl').op = "trigger" /\ Top(ctl').c = c
                         /\ Top(ctl').run = EffectsToRun(c, "value"))]_vars
    /\ [](\A c \in DOMAIN comp :
            (stmt.op = "write" /\ pre.comp[c].dirty) =>
                \A e \in Range(SubsIn(pre.bucket, c, "value")) :
                    e \notin Range(SubsIn(pre.bucket, "data", stmt.a)) =>
                        (runs[e] = At(pre.runs, e) /\ calls[e] = At(pre.calls, e)))

\* a dirty computed with a subscriber had its scheduler called by a write
C20_Witness ==
    /\ "sumRes" \in DOMAIN comp
    /\ stmt.op = "write" /\ Idle
    /\ pre.comp["sumRes"].dirty
    /\ SubsIn(pre.bucket, "sumRes", "value") # <<>>
    /\ calls[comp["sumRes"].effectFn] = At(pre.calls, comp["sumRes"].effectFn) + 1

\* the step the function on top of the call stack takes next is track(t, k)
Tracking(t, k) ==
    /\ ctl # <<>> /\ Len(ctl) < MaxDepth
    /\ LET F == Top(ctl) IN
        \/ /\ InBody(F) /\ Instr(F).op \in {"read", "add", "cond"}
           /\ t = "data"
           /\ k = (IF Instr(F).op = "cond" /\ F.acc = 0 THEN Instr(F).b ELSE Instr(F).a)
        \/ /\ F.op = "getter" /\ (F.pc = 1 \/ ~Dirty(F.c))
           /\ t = F.c
           /\ k = "value"

\* the active effect already recorded (t, k) in the run it is in
Recorded(t, k) ==
    /\ activeEffect # Undefined
    /\ activeEffect \in Range(effectStack)
    /\ <<t, k>> \in Range(effects[activeEffect].deps)

\* C21: a track(t, k) made while the active effect has (t, k) in its deps
\* already leaves the bucket and the effect's deps list as they are.
C21_TrackIdempotent ==
    [][\A t \in Targets : \A k \in Keys :
        (Tracking(t, k) /\ Recorded(t, k)) => (bucket' = bucket /\ effects' = effects)]_vars

\* what the code does guarantee: the dependency set is unchanged and the
\* deps list names the same sets, one of them once more
C21_SetIdempotent ==
    [][\A t \in Targets : \A k \in Keys :
        (Tracking(t, k) /\ Recorded(t, k)) =>
            /\ bucket' = bucket
            /\ effects'[activeEffect].deps = Append(effects[activeEffect].deps, <<t, k>>)]_vars

\* an effect that read foo twice in one run
C21_Repeated ==
    \E e \in DOMAIN effects :
        /\ effects[e].fn = "double"
        /\ effects[e].deps = <<(<<"data", "foo">>), (<<"data", "foo">>)>>
        /\ Subs("data", "foo") = {e}

\* how many microtasks named m are queued
Queued(m) == Cardinality({i \in DOMAIN microtasks : microtasks[i] = m})

\* the flush microtask is on the call stack
Flushing == ctl # <<>> /\ ctl[1].op = "flush"

\* flushes that were scheduled and whose promise chain is not yet through
OpenFlushes == Queued("flush") + (IF Flushing THEN 1 ELSE 0) + Queued("finally")

\* C22: at most one flush is pending or running at any time, and
\* isFlushing is true exactly while one is: from the flushJob call that
\* queued it until the callback of .finally has run, which it does also after
\* a job threw.
C22_SinglePendingFlush ==
    /\ OpenFlushes <= 1
    /\ isFlushing <=> OpenFlushes = 1
    /\ (Flushing \/ Queued("flush") = 1) => Queued("finally") = 0

\* a flush in which a job threw is over and isFlushing is false again
C22_Witness ==
    /\ stmt.op = "flush" /\ Idle /\ err
    /\ \E e \in DOMAIN effects :
        effects[e].fn = "guardJob" /\ runs[e] > At(pre.runs, e) /\ data.ok = 0
    /\ ~isFlushing
    /\ microtasks = <<>>
    /\ Len(pre.jobQueue) = 2

\* frame i of the call stack is an effect that the trigger of the current
\* top-level write invoked
ByWrite(i) ==
    /\ ctl[i].op = "effectFn"
    /\ \/ i = 1
       \/ i = 2 /\ ctl[1].op = "trigger" /\ ctl[1].c = "data"

\* C23: an effect that the trigger of a top-level write obj[f] = v invoked
\* and that reads f first has read v; when the write has returned, f holds v
\* unless an effect assigned it, and an effect that logs 2 * foo has logged 2 * v.
C23_WriteThenTrigger ==
    stmt.op = "write" =>
        /\ \A i \in DOMAIN ctl :
            (/\ ByWrite(i)
             /\ ctl[i].pc = 2
             /\ Body(effects[ctl[i].e].fn)[1] = I("read", stmt.a, "")) =>
                ctl[i].acc = stmt.v
        /\ Writers = {} => data[stmt.a] = stmt.v
        /\ \A e \in DOMAIN effects :
            (effects[e].fn = "double" /\ Idle /\ stmt.a = "foo") => logged[e] = 2 * stmt.v

\* foo was changed and the effect re-run by the write logged twice the new value
C23_Witness ==
    /\ stmt.op = "write" /\ stmt.a = "foo" /\ Idle
    /\ stmt.v # pre.data.foo
    /\ \E e \in DOMAIN effects :
        /\ effects[e].fn = "double"
        /\ runs[e] = At(pre.runs, e) + 1
        /\ logged[e] = 2 * stmt.v

\* the inner effects registered so far
Inner == {e \in DOMAIN effects : effects[e].fn = "effectFn2"}

\* C24: in the nested program, between statements there is one inner effect
\* per run of the outer effect and all of them are in bar's dependency set; a
\* write to foo re-runs the outer effect once and adds one inner effect; a
\* write to bar runs every inner effect once, that is k + 1 runs of the inner
\* body after k writes to foo.
C24_NestedAccumulates ==
    \A o \in DOMAIN effects :
        (effects[o].fn = "effectFn1" /\ Idle /\ runs[o] > 0) =>
            /\ Cardinality(Inner) = runs[o]
            /\ Inner \subseteq Subs("data", "bar")
            /\ (stmt.op = "write" /\ stmt.a = "foo") =>
                /\ runs[o] = At(pre.runs, o) + 1
                /\ Len(effects) = Len(pre.runs) + 1
                /\ runs[Len(effects)] = 1
                /\ \A e \in Inner \ {Len(effects)} : runs[e] = At(pre.runs, e)
            /\ (stmt.op = "write" /\ stmt.a = "bar") =>
                /\ Len(effects) = Len(pre.runs)
                /\ runs[o] = At(pre.runs, o)
                /\ \A e \in Inner : runs[e] = At(pre.runs, e) + 1

\* after two writes to foo, a write to bar ran the inner body three times
C24_Witness ==
    /\ stmt.op = "write" /\ stmt.a = "bar" /\ Idle
    /\ Cardinality(Inner) = 3
    /\ \A e \in Inner : runs[e] = At(pre.runs, e) + 1
    /\ \E o \in DOMAIN effects : effects[o].fn = "effectFn1" /\ runs[o] = 3

\* when a flush is over, every job it ran was asked for: its scheduler was
\* called since the flush before, or while this one ran
C25_OnlyIfTriggered ==
    (stmt.op = "flush" /\ Idle) =>
        \A e \in DOMAIN effects :
            (effects[e].options.scheduler = "jobQueue" /\ runs[e] > At(pre.runs, e)) =>
                (At(pre.asked, e) >= 1 \/ calls[e] > At(pre.calls, e))

\* C25: when a flush is over the jobQueue holds no job that was run in it,
\* and the flush has run no effect that was not triggered since the flush
\* before.
C25_QueueDrained ==
    /\ (stmt.op = "flush" /\ Idle) =>
        \A j \in Range(jobQueue) : runs[j] = At(pre.runs, j)
    /\ C25_OnlyIfTriggered

\* C26: in every state no effect is twice in effectStack, the stack is no
\* deeper than the number of registered effects, and the call stack stays below
\* the host's limit.
C26_NoReentry ==
    /\ \A i, j \in DOMAIN effectStack : i # j => effectStack[i] # effectStack[j]
    /\ Len(effectStack) <= Len(effects)
    /\ Len(ctl) < MaxDepth

\* what the code does guarantee: trigger never invokes the effect that is
\* on top of the stack
C26_NotTheActiveOne ==
    [][(ctl # <<>> /\ Top(ctl).op = "trigger" /\ Entering(ctl')) =>
        Top(ctl').e # activeEffect]_vars

\* C27: an effect with body foo = foo + 1 that has run is in foo's
\* dependency set whenever nothing is running; a top-level write foo = v made
\* while no effect is active runs it exactly once and no further: on return foo
\* is v + 1 and no error was raised.
C27_SelfWriterSubscribed ==
    \A e \in Writers :
        /\ (Idle /\ runs[e] > 0) => e \in Subs("data", "foo")
        /\ (/\ stmt.op = "write" /\ stmt.a = "foo"
            /\ pre.activeEffect = Undefined
            /\ At(pre.runs, e) > 0) =>
                /\ runs[e] <= At(pre.runs, e) + 1
                /\ Len(ctl) < MaxDepth
                /\ Idle => (runs[e] = At(pre.runs, e) + 1 /\ data.foo = stmt.v + 1 /\ ~err)

\* the effect was re-run by a second top-level write
C27_Witness ==
    \E e \in Writers :
        /\ stmt.op = "write" /\ stmt.a = "foo" /\ Idle
        /\ pre.activeEffect = Undefined
        /\ runs[e] = 3
        /\ data.foo = stmt.v + 1
        /\ e \in Subs("data", "foo")
====
